---- MODULE Spec2Model ----
(***************************************************************************)
(* Cartridge upload synchronisation engine (src/src/providers/Uploader.ts) *)
(*                                                                         *)
(* One process holds the module-level commandBus, firstClean and           *)
(* removeFilesMode.  Uploader.initialize keeps at most one Uploader        *)
(* instance in `subs`; every instance owns a command subscription, a       *)
(* configuration listener, an output channel and the handle of its latest  *)
(* start attempt (uploaderSubscription).  A start attempt is the rxjs      *)
(* chain built by loadUploaderConfig; it advances when the promise of      *)
(* getDWConfig settles, when the cartridge folders have been enumerated    *)
(* and when the transport errors or completes.  askCleanCartridge is an    *)
(* async function: it runs up to its first await, then up to its second,   *)
(* then to its end, and calls may overlap.                                 *)
(***************************************************************************)
EXTENDS Integers, Sequences, FiniteSets, TLC

VARIABLES
    uploaders,        \* every Uploader instance constructed so far
    attempts,         \* every subscription made by loadUploaderConfig
    calls,            \* every invocation of askCleanCartridge
    removeFilesMode,  \* module-level sticky conflict policy
    firstClean,       \* module-level one-time flag of cleanOnStart
    settings,         \* workspace configuration 'extension.prophet'
    subs,             \* Uploader.initialize: index of the held instance, 0 = undefined
    disposed,         \* the extension context has been disposed
    out,              \* lines appended to output channels by the latest step
    event,            \* the latest step
    handoff           \* what the latest step gave to uploadServer.init, if it did

vars == <<uploaders, attempts, calls, removeFilesMode, firstClean, settings,
          subs, disposed, out, event, handoff>>

----------------------------------------------------------------------------
(* Bounds *)

MaxUploaders == 2
MaxAttempts == 2
MaxCalls == 2
MaxCartridges == 3
MaxAllow == 2

----------------------------------------------------------------------------
(* Names and paths.  A name is a sequence of characters, a path a sequence *)
(* of names (its segments).                                                *)

NameA == <<"a">>
NameB == <<"b">>
NameZ == <<"z">>
NameZip == <<"p", ".", "z", "i", "p">>
DotZip == <<".", "z", "i", "p">>
Folder1 == <<"w", "1">>
Folder2 == <<"w", "2">>

\* path.basename: the last segment of the path
basename(path) == path[Len(path)]

\* String.prototype.endsWith
endsWith(name, suffix) ==
    /\ Len(name) >= Len(suffix)
    /\ SubSeq(name, Len(name) - Len(suffix) + 1, Len(name)) = suffix

\* Array.prototype.map(basename)
mapBasename(paths) == [k \in 1..Len(paths) |-> basename(paths[k])]

\* Array.prototype.indexOf(x) >= 0
includes(list, x) == \E k \in 1..Len(list) : list[k] = x

\* the elements of b that are not in a, in the order of b
diff(a, b) == SelectSeq(b, LAMBDA i : ~ includes(a, i))

\* the listings the transport may pass as fileNamesOnSandbox
RemoteListings ==
    { <<NameA>>, <<NameA, NameZip>>, <<NameA, NameZ, NameZip>> }

\* the cartridge lists the transport may pass as cartridgesToUpload
LocalListings ==
    { <<<<Folder1, NameA>>>>, <<<<Folder1, NameA>>, <<Folder2, NameZ>>>> }

Commands == {"enable.upload", "clean.upload", "disable.upload"}
Resolutions == {"none", "remove", "leave"}
Responses == {"Remove All Always", "Leave All Always", "Remove All",
              "Leave All", "undefined"}

----------------------------------------------------------------------------
(* Start attempts *)

\* the subscription returned by from(getDWConfig(...)).pipe(...).subscribe(...)
\* replaced is the handle the attempt took over from (0 = null)
NewAttempt(i, trigger, replaced) ==
    [owner |-> i, trigger |-> trigger, replaced |-> replaced, pc |-> "config",
     closed |-> FALSE, inited |-> FALSE]

\* an unsubscribe that leaves the subscription open
unsubscribe_leavesOpen(atts, id) == atts

\* Subscription.unsubscribe: closes the subscription; a closed one stays closed
unsubscribe(atts, id) == [atts EXCEPT ![id].closed = TRUE]

\* the start attempts of instance i that are still subscribed
Live(i) == {id \in 1..Len(attempts) :
                attempts[id].owner = i /\ ~ attempts[id].closed}

----------------------------------------------------------------------------
(* Handlers of one Uploader instance.  They are functions of the part of   *)
(* the state they touch, S = [uploaders, attempts, out], so that a command *)
(* can be delivered to every subscriber of the commandBus in one step.     *)

Line(i, text) == <<i, text>>

\* loadUploaderConfig that overwrites the handle without unsubscribing it
loadUploaderConfig_keepsOld(S, i, cause) ==
    LET held == S.uploaders[i].uploaderSubscription
        text == IF held # 0 THEN "Restarting" ELSE "Starting..."
        started == Append(S.attempts, NewAttempt(i, cause, held))
    IN  [uploaders |-> [S.uploaders EXCEPT
                            ![i].uploaderSubscription = Len(started)],
         attempts |-> started,
         out |-> Append(S.out, Line(i, text))]

\* Uploader.loadUploaderConfig up to the return of subscribe(): stop the
\* held subscription, log, and hold the new one
loadUploaderConfig(S, i, cause) ==
    LET held == S.uploaders[i].uploaderSubscription
        stopped == IF held # 0 THEN unsubscribe(S.attempts, held)
                   ELSE S.attempts
        text == IF held # 0 THEN "Restarting" ELSE "Starting..."
        started == Append(stopped, NewAttempt(i, cause, held))
    IN  [uploaders |-> [S.uploaders EXCEPT
                            ![i].uploaderSubscription = Len(started)],
         attempts |-> started,
         out |-> Append(S.out, Line(i, text))]

\* a command callback that starts only when no subscription is held
onCommand_startsOnlyWhenStopped(S, i, command) ==
    LET held == S.uploaders[i].uploaderSubscription IN
    IF (command = "clean.upload" \/ command = "enable.upload") /\ held = 0
    THEN loadUploaderConfig(S, i, command)
    ELSE IF command = "disable.upload" /\ held # 0
    THEN [uploaders |-> [S.uploaders EXCEPT ![i].uploaderSubscription = 0],
          attempts |-> unsubscribe(S.attempts, held),
          out |-> Append(S.out, Line(i, "Stopping"))]
    ELSE S

\* the callback given to commandBus.subscribe in the constructor
onCommand(S, i, command) ==
    LET held == S.uploaders[i].uploaderSubscription IN
    IF command = "clean.upload" \/ command = "enable.upload"
    THEN loadUploaderConfig(S, i, command)
    ELSE IF command = "disable.upload" /\ held # 0
    THEN [uploaders |-> [S.uploaders EXCEPT ![i].uploaderSubscription = 0],
          attempts |-> unsubscribe(S.attempts, held),
          out |-> Append(S.out, Line(i, "Stopping"))]
    ELSE S

\* Subject.next: the command reaches every subscribed instance in turn
RECURSIVE next(_, _, _)
next(S, i, command) ==
    IF i > Len(S.uploaders) THEN S
    ELSE next(IF S.uploaders[i].commandSubs THEN onCommand(S, i, command)
              ELSE S,
              i + 1, command)

\* a configuration listener that acts on every event, flipped or not
onDidChangeConfiguration_everyEvent(S, i, isProphetUploadEnabled) ==
    LET held == S.uploaders[i].uploaderSubscription
        seen == [S EXCEPT !.uploaders[i].prevState = isProphetUploadEnabled]
    IN
    IF isProphetUploadEnabled
    THEN loadUploaderConfig(seen, i, "configuration")
    ELSE IF held # 0
         THEN [uploaders |-> [seen.uploaders EXCEPT
                                  ![i].uploaderSubscription = 0],
               attempts |-> unsubscribe(S.attempts, held),
               out |-> Append(S.out, Line(i, "Stopping"))]
         ELSE seen

\* the listener given to workspace.onDidChangeConfiguration in start()
onDidChangeConfiguration(S, i, isProphetUploadEnabled) ==
    LET held == S.uploaders[i].uploaderSubscription
        seen == [S EXCEPT !.uploaders[i].prevState = isProphetUploadEnabled]
    IN
    IF isProphetUploadEnabled # S.uploaders[i].prevState
    THEN IF isProphetUploadEnabled
         THEN loadUploaderConfig(seen, i, "configuration")
         ELSE IF held # 0
              THEN [uploaders |-> [seen.uploaders EXCEPT
                                       ![i].uploaderSubscription = 0],
                    attempts |-> unsubscribe(S.attempts, held),
                    out |-> Append(S.out, Line(i, "Stopping"))]
              ELSE seen
    ELSE S

\* the configuration event reaches every instance whose listener is registered
RECURSIVE fireConfiguration(_, _, _)
fireConfiguration(S, i, enabled) ==
    IF i > Len(S.uploaders) THEN S
    ELSE fireConfiguration(
             IF S.uploaders[i].configSubscription
             THEN onDidChangeConfiguration(S, i, enabled) ELSE S,
             i + 1, enabled)

\* new Uploader(workspaceFolders): output channel and command subscription
constructor(S) ==
    [S EXCEPT !.uploaders = Append(S.uploaders,
        [commandSubs |-> TRUE, configSubscription |-> FALSE,
         prevState |-> "undefined", uploaderSubscription |-> 0,
         outputChannel |-> "open"])]

\* uploader.start().subscribe(): the subscriber function of the Observable
start(S, i, isUploadEnabled) ==
    LET listening == [S EXCEPT !.uploaders[i].configSubscription = TRUE,
                               !.uploaders[i].prevState = isUploadEnabled]
    IN  IF isUploadEnabled
        THEN loadUploaderConfig(listening, i, "start")
        ELSE [listening EXCEPT !.out = Append(S.out,
                  Line(i, "Uploader disabled via configuration"))]

\* a teardown that leaves the instance subscribed to the commandBus
teardown_keepsCommandSubs(S, i) ==
    LET held == S.uploaders[i].uploaderSubscription IN
    [uploaders |-> [S.uploaders EXCEPT ![i].configSubscription = FALSE,
                                       ![i].outputChannel = "disposed"],
     attempts |-> IF held # 0 THEN unsubscribe(S.attempts, held)
                  ELSE S.attempts,
     out |-> Append(S.out, Line(i, "Shutting down..."))]

\* the teardown returned by the subscriber function of start()
teardown(S, i) ==
    LET held == S.uploaders[i].uploaderSubscription IN
    [uploaders |-> [S.uploaders EXCEPT ![i].configSubscription = FALSE,
                                       ![i].commandSubs = FALSE,
                                       ![i].outputChannel = "disposed"],
     attempts |-> IF held # 0 THEN unsubscribe(S.attempts, held)
                  ELSE S.attempts,
     out |-> Append(S.out, Line(i, "Shutting down..."))]

\* Uploader.initialize, updateFolders: returns the new state and the new subs
updateFolders(S, held, hasFolders, enabled) ==
    LET torn == IF held # 0 THEN teardown(S, held) ELSE S
        built == constructor(torn)
    IN  IF hasFolders
        THEN [state |-> start(built, Len(built.uploaders), enabled),
              subs |-> Len(built.uploaders)]
        ELSE [state |-> torn, subs |-> 0]

----------------------------------------------------------------------------
(* askCleanCartridge, cut at its two awaits *)

\* the first lines of askCleanCartridge without the early return for no extras
NewCall_removesWithoutExtra(id, fileNamesOnSandbox, cartridgesToUpload) ==
    LET cartridgesNamesToUpload == mapBasename(cartridgesToUpload)
        extraOnSB == SelectSeq(diff(cartridgesNamesToUpload, fileNamesOnSandbox),
                               LAMBDA name : ~ endsWith(name, DotZip))
        base == [session |-> id, fileNamesOnSandbox |-> fileNamesOnSandbox,
                 cartridgesToUpload |-> cartridgesToUpload,
                 extraOnSB |-> extraOnSB, modeAtCall |-> removeFilesMode,
                 cartridgeResolution |-> "unread", response |-> "unasked",
                 pc |-> "done", result |-> <<>>]
    IN  IF removeFilesMode # "unset"
        THEN IF removeFilesMode = "remove"
             THEN [base EXCEPT !.result = fileNamesOnSandbox]
             ELSE base
        ELSE [base EXCEPT !.pc = "getDWConfig"]

\* the first lines of askCleanCartridge without the look at removeFilesMode
NewCall_forgetsMode(id, fileNamesOnSandbox, cartridgesToUpload) ==
    LET cartridgesNamesToUpload == mapBasename(cartridgesToUpload)
        extraOnSB == SelectSeq(diff(cartridgesNamesToUpload, fileNamesOnSandbox),
                               LAMBDA name : ~ endsWith(name, DotZip))
        base == [session |-> id, fileNamesOnSandbox |-> fileNamesOnSandbox,
                 cartridgesToUpload |-> cartridgesToUpload,
                 extraOnSB |-> extraOnSB, modeAtCall |-> removeFilesMode,
                 cartridgeResolution |-> "unread", response |-> "unasked",
                 pc |-> "done", result |-> <<>>]
    IN  IF Len(extraOnSB) = 0 THEN base
        ELSE [base EXCEPT !.pc = "getDWConfig"]

\* askCleanCartridge up to its first await or its early return
NewCall(id, fileNamesOnSandbox, cartridgesToUpload) ==
    LET cartridgesNamesToUpload == mapBasename(cartridgesToUpload)
        extraOnSB == SelectSeq(diff(cartridgesNamesToUpload, fileNamesOnSandbox),
                               LAMBDA name : ~ endsWith(name, DotZip))
        base == [session |-> id, fileNamesOnSandbox |-> fileNamesOnSandbox,
                 cartridgesToUpload |-> cartridgesToUpload,
                 extraOnSB |-> extraOnSB, modeAtCall |-> removeFilesMode,
                 cartridgeResolution |-> "unread", response |-> "unasked",
                 pc |-> "done", result |-> <<>>]
    IN  IF Len(extraOnSB) = 0 THEN base
        ELSE IF removeFilesMode # "unset"
        THEN IF removeFilesMode = "remove"
             THEN [base EXCEPT !.result = fileNamesOnSandbox]
             ELSE base
        ELSE [base EXCEPT !.pc = "getDWConfig"]

\* the call after getDWConfig has resolved with config.cartridgeResolution
afterConfig(call, cartridgeResolution) ==
    LET read == [call EXCEPT !.cartridgeResolution = cartridgeResolution] IN
    IF cartridgeResolution = "remove"
    THEN [call |-> [read EXCEPT !.pc = "done",
                                !.result = call.fileNamesOnSandbox],
          mode |-> "remove"]
    ELSE IF cartridgeResolution = "leave"
    THEN [call |-> [read EXCEPT !.pc = "done"], mode |-> "leave"]
    ELSE [call |-> [read EXCEPT !.pc = "showWarningMessage",
                                !.response = "pending"],
          mode |-> removeFilesMode]

\* a prompt handler that treats a dismissed prompt as 'Remove All Always'
afterResponse_dismissedRemoves(call, response) ==
    LET answered == [call EXCEPT !.response = response, !.pc = "done"] IN
    IF response # "undefined"
    THEN CASE response = "Remove All Always" ->
                [call |-> [answered EXCEPT !.result = call.fileNamesOnSandbox],
                 mode |-> "remove"]
           [] response = "Leave All Always" ->
                [call |-> answered, mode |-> "leave"]
           [] response = "Remove All" ->
                [call |-> [answered EXCEPT !.result = call.fileNamesOnSandbox],
                 mode |-> removeFilesMode]
           [] OTHER ->
                [call |-> answered, mode |-> removeFilesMode]
    ELSE [call |-> [answered EXCEPT !.result = call.fileNamesOnSandbox],
          mode |-> "remove"]

\* a prompt handler whose one-shot 'Remove All' sets removeFilesMode as well
afterResponse_oneShotSticks(call, response) ==
    LET answered == [call EXCEPT !.response = response, !.pc = "done"] IN
    IF response # "undefined"
    THEN CASE response = "Remove All Always" ->
                [call |-> [answered EXCEPT !.result = call.fileNamesOnSandbox],
                 mode |-> "remove"]
           [] response = "Leave All Always" ->
                [call |-> answered, mode |-> "leave"]
           [] response = "Remove All" ->
                [call |-> [answered EXCEPT !.result = call.fileNamesOnSandbox],
                 mode |-> "remove"]
           [] OTHER ->
                [call |-> answered, mode |-> removeFilesMode]
    ELSE [call |-> answered, mode |-> removeFilesMode]

\* the call after showWarningMessage has resolved with response
afterResponse(call, response) ==
    LET answered == [call EXCEPT !.response = response, !.pc = "done"] IN
    IF response # "undefined"
    THEN CASE response = "Remove All Always" ->
                [call |-> [answered EXCEPT !.result = call.fileNamesOnSandbox],
                 mode |-> "remove"]
           [] response = "Leave All Always" ->
                [call |-> answered, mode |-> "leave"]
           [] response = "Remove All" ->
                [call |-> [answered EXCEPT !.result = call.fileNamesOnSandbox],
                 mode |-> removeFilesMode]
           [] OTHER ->
                [call |-> answered, mode |-> removeFilesMode]
    ELSE [call |-> answered, mode |-> removeFilesMode]

----------------------------------------------------------------------------
(* The cartridge list of a start: the last flatMap of loadUploaderConfig   *)
(* and removeDuplicateCartridges.  dwConf.cartridge is the allow-list of   *)
(* the config (isArray says whether the config has one), cartridges the    *)
(* paths emitted by getCartridgesFolder over the workspace folders.        *)

NameC == <<"c">>

\* the cartridge paths getCartridgesFolder may emit
Paths == { <<Folder1, NameA>>, <<Folder1, NameB>>, <<Folder2, NameA>> }

\* the names a config may list in its cartridge field
AllowNames == { NameA, NameB, NameC }

\* the sequences over set of length at most n
SeqsUpTo(set, n) == UNION {[1..k -> set] : k \in 0..n}

\* reduce((acc, val) => acc.add(val), new Set()): the distinct paths in the
\* order of their first emission
RECURSIVE toSet(_)
toSet(emitted) ==
    IF emitted = <<>> THEN <<>>
    ELSE LET front == toSet(SubSeq(emitted, 1, Len(emitted) - 1))
             last == emitted[Len(emitted)]
         IN  IF includes(front, last) THEN front ELSE Append(front, last)

\* a filter that collects the matching cartridges with unshift, last one first
RECURSIVE filterCartridges_unshift(_, _)
filterCartridges_unshift(cartridges, allow) ==
    IF cartridges = <<>> THEN <<>>
    ELSE LET rest == filterCartridges_unshift(Tail(cartridges), allow) IN
         IF \E k \in 1..Len(allow) : basename(Head(cartridges)) = allow[k]
         THEN Append(rest, Head(cartridges)) ELSE rest

\* Array.from(cartridges).filter(cartridge => dwConf.cartridge.some(...))
filterCartridges(cartridges, allow) ==
    SelectSeq(cartridges,
              LAMBDA cartridge : \E k \in 1..Len(allow) :
                                     basename(cartridge) = allow[k])

\* dwConf.cartridge.filter(dwCar => !filteredCartridges.some(...))
missedCartridges(allow, filteredCartridges) ==
    SelectSeq(allow,
              LAMBDA dwCar : ~ \E k \in 1..Len(filteredCartridges) :
                                   basename(filteredCartridges[k]) = dwCar)

\* the filter callback of removeDuplicateCartridges run over the list:
\* unique are the basenames seen, kept the paths let through, duplicates the
\* paths held back
RECURSIVE scanDuplicates(_)
scanDuplicates(cartridgesToUpload) ==
    IF cartridgesToUpload = <<>>
    THEN [unique |-> <<>>, kept |-> <<>>, duplicates |-> <<>>]
    ELSE LET n == Len(cartridgesToUpload)
             before == scanDuplicates(SubSeq(cartridgesToUpload, 1, n - 1))
             cartridge == cartridgesToUpload[n]
             cartridgeName == basename(cartridge)
         IN  IF ~ includes(before.unique, cartridgeName)
             THEN [before EXCEPT !.unique = Append(@, cartridgeName),
                                 !.kept = Append(@, cartridge)]
             ELSE [before EXCEPT !.duplicates = Append(@, cartridge)]

\* removeDuplicateCartridges that tells cartridges apart by path, not basename
removeDuplicateCartridges_byPath(cartridgesToUpload) ==
    [cartridge |-> toSet(cartridgesToUpload), warnings |-> <<>>]

\* Uploader.removeDuplicateCartridges: the list to upload and the warning
removeDuplicateCartridges(cartridgesToUpload) ==
    LET scan == scanDuplicates(cartridgesToUpload) IN
    [cartridge |-> scan.kept,
     warnings |-> IF Len(scan.duplicates) = 0 THEN <<>>
                  ELSE <<[kind |-> "duplicates", names |-> scan.duplicates]>>]

\* the allow-list branch of the last flatMap: the filtered list and the warning
allowListed(cartridges, allow) ==
    LET filteredCartridges == filterCartridges(cartridges, allow) IN
    [cartridge |-> filteredCartridges,
     warnings |-> IF Len(filteredCartridges) # Len(allow)
                  THEN <<[kind |-> "missing",
                          names |-> missedCartridges(allow, filteredCartridges)]>>
                  ELSE <<>>]

\* the last flatMap without the call of removeDuplicateCartridges
selectCartridges_keepsDuplicates(dwConf, emitted) ==
    LET cartridges == toSet(emitted)
        chosen == IF dwConf.isArray /\ Len(dwConf.cartridge) # 0
                  THEN allowListed(cartridges, dwConf.cartridge)
                  ELSE [cartridge |-> cartridges, warnings |-> <<>>]
    IN  [cartridge |-> chosen.cartridge, warnings |-> chosen.warnings]

\* the last flatMap up to the call of uploadServer.init: dwConf.cartridge as
\* handed over and the warnings shown on the way
selectCartridges(dwConf, emitted) ==
    LET cartridges == toSet(emitted)
        chosen == IF dwConf.isArray /\ Len(dwConf.cartridge) # 0
                  THEN allowListed(cartridges, dwConf.cartridge)
                  ELSE [cartridge |-> cartridges, warnings |-> <<>>]
        deduplicated == removeDuplicateCartridges(chosen.cartridge)
    IN  [cartridge |-> deduplicated.cartridge,
         warnings |-> chosen.warnings \o deduplicated.warnings]

\* the configs and enumerations a start of the session manager may meet
StartInputs ==
    { [dwConf |-> [isArray |-> FALSE, cartridge |-> <<>>],
       emitted |-> << <<Folder1, NameA>>, <<Folder2, NameA>> >>],
      [dwConf |-> [isArray |-> TRUE, cartridge |-> <<NameA, NameC>>],
       emitted |-> << <<Folder1, NameA>>, <<Folder1, NameB>> >>],
      [dwConf |-> [isArray |-> TRUE, cartridge |-> <<NameC>>],
       emitted |-> <<>>] }

\* the configs and enumerations of the bounded check of the cartridge list
AllInputs ==
    { [dwConf |-> d, emitted |-> e] :
        d \in { [isArray |-> FALSE, cartridge |-> <<>>] }
              \cup { [isArray |-> TRUE, cartridge |-> allow] :
                       allow \in SeqsUpTo(AllowNames, MaxAllow) },
        e \in SeqsUpTo(Paths, MaxCartridges) }

NoHandoff == [phase |-> "none"]

\* the arguments of uploadServer.init for start attempt id
InitCall(id, input, cleanSetting, clean) ==
    LET selected == selectCartridges(input.dwConf, input.emitted) IN
    [phase |-> "init", id |-> id, dwConf |-> input.dwConf,
     emitted |-> input.emitted, cartridge |-> selected.cartridge,
     warnings |-> selected.warnings, cleanSetting |-> cleanSetting,
     cleanOnStart |-> clean]

----------------------------------------------------------------------------
(* Initial states: Uploader.initialize has registered the commands and run *)
(* updateFolders once.                                                     *)

Blank == [uploaders |-> <<>>, attempts |-> <<>>, out |-> <<>>]

Event(kind, id, arg) == [kind |-> kind, id |-> id, arg |-> arg]

Init ==
    /\ settings \in [uploadEnabled : BOOLEAN]
    /\ \E hasFolders \in BOOLEAN :
         LET r == updateFolders(Blank, 0, hasFolders, settings.uploadEnabled) IN
         /\ uploaders = r.state.uploaders
         /\ attempts = r.state.attempts
         /\ out = r.state.out
         /\ subs = r.subs
    /\ calls = <<>>
    /\ removeFilesMode = "unset"
    /\ firstClean = TRUE
    /\ disposed = FALSE
    /\ event = Event("initialize", 0, "")
    /\ handoff = NoHandoff

----------------------------------------------------------------------------
(* Steps of the host: commands, configuration events, folder changes *)

Here == [uploaders |-> uploaders, attempts |-> attempts, out |-> <<>>]

\* commandBus.next(command)
Command(command) ==
    /\ ~ disposed
    /\ LET S == next(Here, 1, command) IN
       /\ Len(S.attempts) <= MaxAttempts
       /\ uploaders' = S.uploaders
       /\ attempts' = S.attempts
       /\ out' = S.out
    /\ event' = Event("command", 0, command)
    /\ handoff' = NoHandoff
    /\ UNCHANGED <<calls, removeFilesMode, firstClean, settings, subs, disposed>>

\* the user or the host writes the configuration; onDidChangeConfiguration fires
ConfigChange(enabled) ==
    /\ ~ disposed
    /\ settings' = [settings EXCEPT !.uploadEnabled = enabled]
    /\ LET S == fireConfiguration(Here, 1, enabled) IN
       /\ Len(S.attempts) <= MaxAttempts
       /\ uploaders' = S.uploaders
       /\ attempts' = S.attempts
       /\ out' = S.out
    /\ event' = Event("configuration", 0, IF enabled THEN "on" ELSE "off")
    /\ handoff' = NoHandoff
    /\ UNCHANGED <<calls, removeFilesMode, firstClean, subs, disposed>>

\* workspace.onDidChangeWorkspaceFolders(updateFolders)
UpdateFolders(hasFolders) ==
    /\ ~ disposed
    /\ hasFolders => Len(uploaders) < MaxUploaders
    /\ LET r == updateFolders(Here, subs, hasFolders, settings.uploadEnabled) IN
       /\ Len(r.state.attempts) <= MaxAttempts
       /\ uploaders' = r.state.uploaders
       /\ attempts' = r.state.attempts
       /\ out' = r.state.out
       /\ subs' = r.subs
    /\ event' = Event("updateFolders", 0, IF hasFolders THEN "folders" ELSE "none")
    /\ handoff' = NoHandoff
    /\ UNCHANGED <<calls, removeFilesMode, firstClean, settings, disposed>>

\* the disposable pushed to context.subscriptions by Uploader.initialize
Dispose ==
    /\ ~ disposed
    /\ disposed' = TRUE
    /\ LET S == IF subs # 0 THEN teardown(Here, subs) ELSE Here IN
       /\ uploaders' = S.uploaders
       /\ attempts' = S.attempts
       /\ out' = S.out
    /\ event' = Event("dispose", 0, "")
    /\ handoff' = NoHandoff
    /\ UNCHANGED <<calls, removeFilesMode, firstClean, settings, subs>>

----------------------------------------------------------------------------
(* Steps of a start attempt: the chain subscribed by loadUploaderConfig *)

\* the error callback of subscribe(): one line, one more for an Error object
errorLines(i, isError) ==
    IF isError THEN <<Line(i, "Error: err"), Line(i, "Error: err.stack")>>
    ELSE <<Line(i, "Error: err")>>

\* getDWConfig resolves and the first flatMap runs for a closed subscriber too
ConfigLoaded_deliversToClosed(id) ==
    /\ id \in 1..Len(attempts)
    /\ attempts[id].pc = "config"
    /\ attempts' = [attempts EXCEPT ![id].pc = "cartridges"]
    /\ out' = <<Line(attempts[id].owner, "Using config file")>>
    /\ event' = Event("ConfigLoaded", id, "")
    /\ handoff' = NoHandoff
    /\ UNCHANGED <<uploaders, calls, removeFilesMode, firstClean, settings,
                   subs, disposed>>

\* getDWConfig resolves: a closed subscriber gets nothing, a live one runs the
\* first flatMap, which logs the config file and subscribes to the enumeration
ConfigLoaded(id) ==
    /\ id \in 1..Len(attempts)
    /\ attempts[id].pc = "config"
    /\ IF attempts[id].closed
       THEN /\ attempts' = [attempts EXCEPT ![id].pc = "dropped"]
            /\ out' = <<>>
       ELSE /\ attempts' = [attempts EXCEPT ![id].pc = "cartridges"]
            /\ out' = <<Line(attempts[id].owner, "Using config file")>>
    /\ event' = Event("ConfigLoaded", id, "")
    /\ handoff' = NoHandoff
    /\ UNCHANGED <<uploaders, calls, removeFilesMode, firstClean, settings,
                   subs, disposed>>

\* getDWConfig rejects: the error callback runs unless the subscriber is closed
ConfigFailed(id, isError) ==
    /\ id \in 1..Len(attempts)
    /\ attempts[id].pc = "config"
    /\ IF attempts[id].closed
       THEN /\ attempts' = [attempts EXCEPT ![id].pc = "dropped"]
            /\ out' = <<>>
       ELSE /\ attempts' = [attempts EXCEPT ![id].pc = "error",
                                            ![id].closed = TRUE]
            /\ out' = errorLines(attempts[id].owner, isError)
    /\ event' = Event("ConfigFailed", id, "")
    /\ handoff' = NoHandoff
    /\ UNCHANGED <<uploaders, calls, removeFilesMode, firstClean, settings,
                   subs, disposed>>

\* a getter that reads the setting 'clean.on.start' every time
cleanOnStart_readsSetting(cleanSetting) == cleanSetting

\* get cleanOnStart: the setting 'clean.on.start' the first time, true afterwards
cleanOnStart(cleanSetting) == IF firstClean THEN cleanSetting ELSE TRUE

\* a last flatMap that stops before uploadServer.init when a warning was shown
CartridgesResolved_stopsOnWarning(id, input, cleanSetting) ==
    /\ id \in 1..Len(attempts)
    /\ attempts[id].pc = "cartridges"
    /\ ~ attempts[id].closed
    /\ selectCartridges(input.dwConf, input.emitted).warnings = <<>>
    /\ attempts' = [attempts EXCEPT ![id].pc = "running", ![id].inited = TRUE]
    /\ firstClean' = FALSE
    /\ out' = <<>>
    /\ event' = Event("init", id, "")
    /\ handoff' = InitCall(id, input, cleanSetting, cleanOnStart(cleanSetting))
    /\ UNCHANGED <<uploaders, calls, removeFilesMode, settings, subs, disposed>>

\* the cartridge folders are enumerated: the last flatMap hands the config to
\* uploadServer.init, reading this.cleanOnStart on the way
CartridgesResolved(id, input, cleanSetting) ==
    /\ id \in 1..Len(attempts)
    /\ attempts[id].pc = "cartridges"
    /\ ~ attempts[id].closed
    /\ attempts' = [attempts EXCEPT ![id].pc = "running", ![id].inited = TRUE]
    /\ firstClean' = FALSE
    /\ out' = <<>>
    /\ event' = Event("init", id, "")
    /\ handoff' = InitCall(id, input, cleanSetting, cleanOnStart(cleanSetting))
    /\ UNCHANGED <<uploaders, calls, removeFilesMode, settings, subs, disposed>>

\* the enumeration or the transport errors
InnerError(id, isError) ==
    /\ id \in 1..Len(attempts)
    /\ attempts[id].pc \in {"cartridges", "running"}
    /\ ~ attempts[id].closed
    /\ attempts' = [attempts EXCEPT ![id].pc = "error", ![id].closed = TRUE]
    /\ out' = errorLines(attempts[id].owner, isError)
    /\ event' = Event("InnerError", id, "")
    /\ handoff' = NoHandoff
    /\ UNCHANGED <<uploaders, calls, removeFilesMode, firstClean, settings,
                   subs, disposed>>

\* the observable of the transport completes: the complete callback runs
TransportCompleted(id) ==
    /\ id \in 1..Len(attempts)
    /\ attempts[id].pc = "running"
    /\ ~ attempts[id].closed
    /\ attempts' = [attempts EXCEPT ![id].pc = "completed", ![id].closed = TRUE]
    /\ out' = <<Line(attempts[id].owner, "Error: completed!")>>
    /\ event' = Event("TransportCompleted", id, "")
    /\ handoff' = NoHandoff
    /\ UNCHANGED <<uploaders, calls, removeFilesMode, firstClean, settings,
                   subs, disposed>>

----------------------------------------------------------------------------
(* Steps of askCleanCartridge *)

\* the transport of a running session calls the callback
AskBegin(id, fileNamesOnSandbox, cartridgesToUpload) ==
    /\ id \in 1..Len(attempts)
    /\ attempts[id].pc = "running"
    /\ ~ attempts[id].closed
    /\ Len(calls) < MaxCalls
    /\ calls' = Append(calls, NewCall(id, fileNamesOnSandbox, cartridgesToUpload))
    /\ out' = <<>>
    /\ event' = Event("askCleanCartridge", Len(calls) + 1, "")
    /\ handoff' = NoHandoff
    /\ UNCHANGED <<uploaders, attempts, removeFilesMode, firstClean, settings,
                   subs, disposed>>

\* await getDWConfig(this.workspaceFolders) resolves
AskConfigLoaded(c, cartridgeResolution) ==
    /\ c \in 1..Len(calls)
    /\ calls[c].pc = "getDWConfig"
    /\ LET r == afterConfig(calls[c], cartridgeResolution) IN
       /\ calls' = [calls EXCEPT ![c] = r.call]
       /\ removeFilesMode' = r.mode
    /\ out' = <<>>
    /\ event' = Event("AskConfigLoaded", c, cartridgeResolution)
    /\ handoff' = NoHandoff
    /\ UNCHANGED <<uploaders, attempts, firstClean, settings, subs, disposed>>

\* await getDWConfig(this.workspaceFolders) rejects: so does the call
AskConfigFailed(c) ==
    /\ c \in 1..Len(calls)
    /\ calls[c].pc = "getDWConfig"
    /\ calls' = [calls EXCEPT ![c].pc = "rejected"]
    /\ out' = <<>>
    /\ event' = Event("AskConfigFailed", c, "")
    /\ handoff' = NoHandoff
    /\ UNCHANGED <<uploaders, attempts, removeFilesMode, firstClean, settings,
                   subs, disposed>>

\* await window.showWarningMessage(...) resolves
AskAnswer(c, response) ==
    /\ c \in 1..Len(calls)
    /\ calls[c].pc = "showWarningMessage"
    /\ LET r == afterResponse(calls[c], response) IN
       /\ calls' = [calls EXCEPT ![c] = r.call]
       /\ removeFilesMode' = r.mode
    /\ out' = <<>>
    /\ event' = Event("AskAnswer", c, response)
    /\ handoff' = NoHandoff
    /\ UNCHANGED <<uploaders, attempts, firstClean, settings, subs, disposed>>

----------------------------------------------------------------------------
(* Specifications.  Next is every step of the process; Spec follows one    *)
(* Uploader instance through commands and configuration events; SpecPolicy *)
(* follows the calls of askCleanCartridge across sessions and instances.   *)

Next ==
    \/ \E command \in Commands : Command(command)
    \/ \E enabled \in BOOLEAN : ConfigChange(enabled)
    \/ \E hasFolders \in BOOLEAN : UpdateFolders(hasFolders)
    \/ Dispose
    \/ \E id \in 1..MaxAttempts : ConfigLoaded(id)
    \/ \E id \in 1..MaxAttempts, isError \in BOOLEAN : ConfigFailed(id, isError)
    \/ \E id \in 1..MaxAttempts, input \in StartInputs, cleanSetting \in BOOLEAN :
           CartridgesResolved(id, input, cleanSetting)
    \/ \E id \in 1..MaxAttempts, isError \in BOOLEAN : InnerError(id, isError)
    \/ \E id \in 1..MaxAttempts : TransportCompleted(id)
    \/ \E id \in 1..MaxAttempts, remote \in RemoteListings, local \in LocalListings :
           AskBegin(id, remote, local)
    \/ \E c \in 1..MaxCalls, res \in Resolutions : AskConfigLoaded(c, res)
    \/ \E c \in 1..MaxCalls : AskConfigFailed(c)
    \/ \E c \in 1..MaxCalls, response \in Responses : AskAnswer(c, response)

\* one Uploader instance: commands, configuration events, its start attempts
NextSession ==
    \/ \E command \in Commands : Command(command)
    \/ \E enabled \in BOOLEAN : ConfigChange(enabled)
    \/ \E id \in 1..MaxAttempts : ConfigLoaded(id)
    \/ \E id \in 1..MaxAttempts, isError \in BOOLEAN : ConfigFailed(id, isError)
    \/ \E id \in 1..MaxAttempts, input \in StartInputs, cleanSetting \in BOOLEAN :
           CartridgesResolved(id, input, cleanSetting)
    \/ \E id \in 1..MaxAttempts, isError \in BOOLEAN : InnerError(id, isError)
    \/ \E id \in 1..MaxAttempts : TransportCompleted(id)

Spec == Init /\ [][NextSession]_vars

\* the conflict policy: sessions come up, folder changes replace the instance,
\* and the transports of the running sessions call askCleanCartridge
NextPolicy ==
    \/ \E hasFolders \in BOOLEAN : UpdateFolders(hasFolders)
    \/ \E id \in 1..MaxAttempts : ConfigLoaded(id)
    \/ \E id \in 1..MaxAttempts, input \in StartInputs, cleanSetting \in BOOLEAN :
           CartridgesResolved(id, input, cleanSetting)
    \/ \E id \in 1..MaxAttempts, remote \in RemoteListings, local \in LocalListings :
           AskBegin(id, remote, local)
    \/ \E c \in 1..MaxCalls, res \in Resolutions : AskConfigLoaded(c, res)
    \/ \E c \in 1..MaxCalls : AskConfigFailed(c)
    \/ \E c \in 1..MaxCalls, response \in Responses : AskAnswer(c, response)

SpecPolicy == Init /\ [][NextPolicy]_vars

\* the cartridge list of a start, over every config and enumeration within
\* the bounds
NextCartridges ==
    \/ \E id \in 1..MaxAttempts : ConfigLoaded(id)
    \/ \E id \in 1..MaxAttempts, input \in AllInputs, cleanSetting \in BOOLEAN :
           CartridgesResolved(id, input, cleanSetting)

SpecCartridges == Init /\ [][NextCartridges]_vars

\* the process: folder changes replace the Uploader instance, the extension
\* is disposed, and the commands and configuration events reach whoever is
\* subscribed.  enable.upload runs the same branch of the command callback as
\* clean.upload and is left to Spec.
NextProcess ==
    \/ \E command \in {"clean.upload", "disable.upload"} : Command(command)
    \/ \E enabled \in BOOLEAN : ConfigChange(enabled)
    \/ \E hasFolders \in BOOLEAN : UpdateFolders(hasFolders)
    \/ Dispose
    \/ \E id \in 1..MaxAttempts : ConfigLoaded(id)
    \/ \E id \in 1..MaxAttempts, input \in StartInputs, cleanSetting \in BOOLEAN :
           CartridgesResolved(id, input, cleanSetting)

SpecProcess == Init /\ [][NextProcess]_vars

\* the reads of clean.on.start: starts that fail, starts cancelled by a
\* restart or a folder change, and the handoffs of the others
NextClean ==
    \/ Command("clean.upload")
    \/ \E hasFolders \in BOOLEAN : UpdateFolders(hasFolders)
    \/ \E id \in 1..MaxAttempts : ConfigLoaded(id)
    \/ \E id \in 1..MaxAttempts, isError \in BOOLEAN : ConfigFailed(id, isError)
    \/ \E id \in 1..MaxAttempts, input \in StartInputs, cleanSetting \in BOOLEAN :
           CartridgesResolved(id, input, cleanSetting)

SpecClean == Init /\ [][NextClean]_vars

----------------------------------------------------------------------------
(* Claims about the session manager, checked under Spec *)

\* C1: an Uploader instance has at most one live start attempt or session,
\* it is the one held in uploaderSubscription, and every subscription that
\* loadUploaderConfig took over from, like every older one of the instance,
\* is unsubscribed
C1_AtMostOneLiveSession ==
    /\ \A i \in 1..Len(uploaders) :
         /\ Cardinality(Live(i)) <= 1
         /\ \A id \in Live(i) : uploaders[i].uploaderSubscription = id
    /\ \A id \in 1..Len(attempts) :
         /\ attempts[id].replaced # 0 => attempts[attempts[id].replaced].closed
         /\ \A older \in 1..(id - 1) :
              attempts[older].owner = attempts[id].owner => attempts[older].closed

\* a running session was restarted and its successor is live
C1_Witness ==
    \E id \in 1..Len(attempts) :
        /\ ~ attempts[id].closed
        /\ attempts[id].replaced # 0
        /\ attempts[attempts[id].replaced].pc = "running"
        /\ attempts[attempts[id].replaced].closed

\* the second of two clean.upload commands took over from the first while the
\* first was still loading the config or enumerating cartridges
CleanTwice(a1, a2) ==
    /\ attempts[a2].replaced = a1
    /\ attempts[a1].trigger = "clean.upload"
    /\ attempts[a2].trigger = "clean.upload"
    /\ attempts[a1].pc \in {"config", "dropped", "cartridges"}

\* C2: when clean.upload arrives twice, the second while the first start is in
\* flight, the first start never reaches the transport; once the promise of the
\* first has settled and the second has been handed to the transport, the
\* second is the only live session of the instance and the only one of the two
\* for which init was invoked
C2_CleanTwiceOneSession ==
    \A a1, a2 \in 1..Len(attempts) :
        CleanTwice(a1, a2) =>
            /\ ~ attempts[a1].inited
            /\ attempts[a1].closed
            /\ ( /\ attempts[a1].pc # "config"
                 /\ attempts[a2].pc = "running"
                 /\ ~ attempts[a2].closed )
               => /\ Live(attempts[a2].owner) = {a2}
                  /\ {id \in a1..Len(attempts) :
                         /\ attempts[id].owner = attempts[a2].owner
                         /\ attempts[id].inited} = {a2}

\* both have settled: the config promise of the first resolved after it was
\* unsubscribed, the second is running
C2_Witness ==
    \E a1, a2 \in 1..Len(attempts) :
        /\ CleanTwice(a1, a2)
        /\ attempts[a1].pc = "dropped"
        /\ attempts[a2].pc = "running"
        /\ ~ attempts[a2].closed

\* the handle of instance i after the step is a start attempt made by the step
FreshStart(i, trigger) ==
    LET new == uploaders'[i].uploaderSubscription IN
    /\ new = Len(attempts) + 1
    /\ Len(attempts') = new
    /\ attempts'[new].owner = i
    /\ attempts'[new].trigger = trigger
    /\ attempts'[new].pc = "config"
    /\ ~ attempts'[new].closed
    /\ ~ attempts'[new].inited
    /\ Live(i)' = {new}

\* C8: a clean.upload or enable.upload command on the subscribed instance,
\* in whatever state and with whatever enabled flag, unsubscribes the held
\* subscription and begins a start attempt that loads the config anew
C8_CommandForcesRestart ==
    [][( /\ event'.kind = "command"
         /\ event'.arg \in {"clean.upload", "enable.upload"} )
       => \A i \in 1..Len(uploaders) :
              uploaders[i].commandSubs =>
                  /\ FreshStart(i, event'.arg)
                  /\ \A id \in 1..Len(attempts) :
                         attempts[id].owner = i => attempts'[id].closed
                  /\ uploaders'[i].prevState = uploaders[i].prevState]_vars

\* a clean.upload has just restarted an instance whose start had failed, while
\* the enabled flag is off
C8_Witness ==
    /\ event.kind = "command"
    /\ event.arg = "clean.upload"
    /\ ~ settings.uploadEnabled
    /\ \E id \in 1..Len(attempts) :
           /\ ~ attempts[id].closed
           /\ attempts[id].trigger = "clean.upload"
           /\ attempts[id].replaced # 0
           /\ attempts[attempts[id].replaced].pc = "error"

\* C9: a disable.upload command leaves no session of the subscribed instance
\* live; when none was live it changes nothing and logs nothing; it never
\* changes the last observed enabled flag or the conflict policy
C9_DisableStopsOrNothing ==
    [][( /\ event'.kind = "command"
         /\ event'.arg = "disable.upload" )
       => /\ \A i \in 1..Len(uploaders) :
                 uploaders[i].commandSubs =>
                     /\ Live(i)' = {}
                     /\ uploaders'[i].prevState = uploaders[i].prevState
                     /\ Live(i) = {} =>
                            /\ uploaders'[i] = uploaders[i]
                            /\ \A k \in 1..Len(out') : out'[k][1] # i
          /\ attempts' = [id \in 1..Len(attempts) |->
                              IF attempts[id].closed THEN attempts[id]
                              ELSE [attempts[id] EXCEPT !.closed = TRUE]]
          /\ removeFilesMode' = removeFilesMode]_vars

\* C10: a configuration event whose enabled flag differs from the last
\* observed value begins a start attempt when the flag is on and leaves no
\* session live when it is off; an event whose flag equals the last observed
\* value changes nothing of the instance and logs nothing
C10_FlipTogglesOnly ==
    [][event'.kind = "configuration"
       => \A i \in 1..Len(uploaders) :
              uploaders[i].configSubscription =>
                  IF settings'.uploadEnabled # uploaders[i].prevState
                  THEN /\ uploaders'[i].prevState = settings'.uploadEnabled
                       /\ IF settings'.uploadEnabled
                          THEN FreshStart(i, "configuration")
                          ELSE /\ Live(i)' = {}
                               /\ Len(attempts') = Len(attempts)
                  ELSE /\ uploaders'[i] = uploaders[i]
                       /\ attempts' = attempts
                       /\ out' = <<>>]_vars

\* the session was stopped by a command while the flag stayed on, and a
\* configuration event with the flag still on has just left it stopped
C10_Witness ==
    /\ event.kind = "configuration"
    /\ event.arg = "on"
    /\ out = <<>>
    /\ \E i \in 1..Len(uploaders) :
           /\ uploaders[i].configSubscription
           /\ uploaders[i].prevState
           /\ uploaders[i].uploaderSubscription = 0
           /\ Live(i) = {}
           /\ \E id \in 1..Len(attempts) : attempts[id].owner = i

----------------------------------------------------------------------------
(* Claims about the conflict policy, checked under SpecPolicy *)

\* the names that end in '.zip' among the names of the model
ArchiveNames == {NameZip}

\* the remote names of a call that are no archive and no basename of a
\* cartridge to upload
ExtraNames(call) ==
    {call.fileNamesOnSandbox[k] : k \in 1..Len(call.fileNamesOnSandbox)}
        \ ({call.cartridgesToUpload[k][2] : k \in 1..Len(call.cartridgesToUpload)}
           \cup ArchiveNames)

\* C3: a call that prompted (extra remote names, policy unset when it looked,
\* no cartridgeResolution in the config) and whose prompt is dismissed returns
\* the empty delete set and leaves removeFilesMode as it is
C3_DismissedPromptLeaves ==
    [][\A c \in 1..Len(calls) :
          ( /\ calls[c].pc = "showWarningMessage"
            /\ calls'[c].pc = "done"
            /\ calls'[c].response = "undefined" )
          => /\ calls'[c].result = <<>>
             /\ removeFilesMode' = removeFilesMode
             /\ ExtraNames(calls[c]) # {}
             /\ calls[c].modeAtCall = "unset"
             /\ calls[c].cartridgeResolution = "none"]_vars

\* a prompt has just been dismissed and the policy is still unset
C3_Witness ==
    /\ event.kind = "AskAnswer"
    /\ event.arg = "undefined"
    /\ calls[event.id].result = <<>>
    /\ ExtraNames(calls[event.id]) # {}
    /\ removeFilesMode = "unset"

\* C4: a call returns a non-empty delete set only if there is an extra
\* non-archive remote name and the policy it found was 'remove', or the config
\* it loaded said 'remove', or its prompt was answered 'Remove All' or
\* 'Remove All Always'
C4_DestructiveActionGuard ==
    \A c \in 1..Len(calls) :
        calls[c].result # <<>> =>
            /\ ExtraNames(calls[c]) # {}
            /\ \/ calls[c].modeAtCall = "remove"
               \/ calls[c].cartridgeResolution = "remove"
               \/ calls[c].response \in {"Remove All", "Remove All Always"}

\* a one-shot 'Remove All' returned names while the policy is unset
C4_Witness ==
    \E c \in 1..Len(calls) :
        /\ calls[c].result # <<>>
        /\ calls[c].response = "Remove All"
        /\ removeFilesMode = "unset"

\* C5 as stated: a call made when the policy is set does not prompt and
\* returns the full remote listing under 'remove', nothing under 'leave'
C5_Original ==
    \A c \in 1..Len(calls) :
        calls[c].modeAtCall # "unset" =>
            /\ calls[c].pc = "done"
            /\ calls[c].response = "unasked"
            /\ calls[c].result = IF calls[c].modeAtCall = "remove"
                                 THEN calls[c].fileNamesOnSandbox ELSE <<>>

\* C5 amended: a call made when the policy is set neither loads the config nor
\* prompts; with an extra non-archive remote name it returns the full remote
\* listing under 'remove' and nothing under 'leave', without one it returns
\* nothing under either policy
C5_PolicySticky ==
    \A c \in 1..Len(calls) :
        calls[c].modeAtCall # "unset" =>
            /\ calls[c].pc = "done"
            /\ calls[c].response = "unasked"
            /\ calls[c].cartridgeResolution = "unread"
            /\ calls[c].result =
                   IF ExtraNames(calls[c]) # {} /\ calls[c].modeAtCall = "remove"
                   THEN calls[c].fileNamesOnSandbox ELSE <<>>

\* 'Remove All Always' was answered for a session of one instance, and a later
\* call from a session of another instance got the full listing unprompted
C5_Witness ==
    \E c1, c2 \in 1..Len(calls) :
        /\ c1 < c2
        /\ calls[c1].response = "Remove All Always"
        /\ calls[c2].modeAtCall = "remove"
        /\ calls[c2].result = calls[c2].fileNamesOnSandbox
        /\ calls[c2].result # <<>>
        /\ attempts[calls[c1].session].owner # attempts[calls[c2].session].owner

\* C6: once removeFilesMode is 'remove' or 'leave' it never changes
C6_PolicyWrittenOnce ==
    [][removeFilesMode # "unset" => removeFilesMode' = removeFilesMode]_vars

\* C7: no call returns a name that ends in '.zip'
C7_NoArchiveDeleted ==
    \A c \in 1..Len(calls) :
        \A k \in 1..Len(calls[c].result) : calls[c].result[k] \notin ArchiveNames

----------------------------------------------------------------------------
(* Claims about failed starts, checked under Spec *)

\* the latest step was the failure of start attempt event.id
StartJustFailed ==
    /\ event.kind \in {"ConfigFailed", "InnerError"}
    /\ attempts[event.id].pc = "error"

\* C11: when a start attempt fails the error is reported once and the
\* instance is stopped: the next step logs neither 'Stopping' nor
\* 'Restarting' for it, and only a command or a configuration event begins
\* a new start attempt
C11_FailedStartStops ==
    [][StartJustFailed =>
          LET i == attempts[event.id].owner IN
          /\ Cardinality({k \in 1..Len(out) : out[k] = Line(i, "Error: err")}) = 1
          /\ Live(i) = {}
          /\ \A k \in 1..Len(out') :
                 out'[k] \notin {Line(i, "Stopping"), Line(i, "Restarting")}
          /\ Len(attempts') > Len(attempts) =>
                 event'.kind \in {"command", "configuration"}]_vars

----------------------------------------------------------------------------
(* Claims about the cartridge list of a start, checked under SpecCartridges *)

\* the latest step handed an allow-listed start to the transport
AllowListedInit ==
    /\ handoff.phase = "init"
    /\ handoff.dwConf.isArray
    /\ Len(handoff.dwConf.cartridge) > 0

\* the list the latest start gave to removeDuplicateCartridges
BeforeDuplicates ==
    IF AllowListedInit
    THEN filterCartridges(toSet(handoff.emitted), handoff.dwConf.cartridge)
    ELSE toSet(handoff.emitted)

\* the position of path in list (the paths of a list are distinct)
Position(list, path) == CHOOSE k \in 1..Len(list) : list[k] = path

\* C12: removeDuplicateCartridges returns exactly one path per basename of
\* its input, the first path of the input with that basename, and the kept
\* paths stand in the order of the input
C12_DedupStable ==
    handoff.phase = "init" =>
        LET input == BeforeDuplicates
            kept == handoff.cartridge
        IN  /\ \A k \in 1..Len(kept) : includes(input, kept[k])
            /\ \A k \in 1..Len(input) :
                   \E j \in 1..Len(kept) :
                       /\ kept[j][2] = input[k][2]
                       /\ Position(input, kept[j]) <= k
                       /\ \A other \in 1..Len(kept) :
                              kept[other][2] = input[k][2] => other = j
            /\ \A j1, j2 \in 1..Len(kept) :
                   j1 < j2 => Position(input, kept[j1]) < Position(input, kept[j2])

\* a later cartridge with the basename of an earlier one was dropped and a
\* cartridge after it was kept
C12_Witness ==
    /\ handoff.phase = "init"
    /\ BeforeDuplicates = << <<Folder1, NameA>>, <<Folder2, NameA>>, <<Folder1, NameB>> >>
    /\ handoff.cartridge = << <<Folder1, NameA>>, <<Folder1, NameB>> >>

\* the allow-list names without a resolved cartridge of that basename
MissingNames ==
    SelectSeq(handoff.dwConf.cartridge,
              LAMBDA name : \A k \in 1..Len(handoff.emitted) :
                                handoff.emitted[k][2] # name)

\* the missing-cartridge warnings the latest start showed
MissingWarnings ==
    SelectSeq(handoff.warnings, LAMBDA w : w.kind = "missing")

\* C13: a start with a non-empty allow-list shows the missing-cartridge
\* warning exactly when an allow-list name has no resolved cartridge, and the
\* warning names exactly those names
C13_MissingWarningExact ==
    AllowListedInit =>
        IF MissingNames = <<>> THEN MissingWarnings = <<>>
        ELSE /\ Len(MissingWarnings) = 1
             /\ MissingWarnings[1].names = MissingNames

\* C14: filtering an already filtered cartridge list by the same allow-list
\* gives the same list in the same order
C14_FilterIdempotent ==
    AllowListedInit =>
        LET once == filterCartridges(toSet(handoff.emitted),
                                     handoff.dwConf.cartridge)
        IN  filterCartridges(once, handoff.dwConf.cartridge) = once

\* the filter dropped a cartridge and kept two
C14_Witness ==
    /\ AllowListedInit
    /\ Len(toSet(handoff.emitted)) = 3
    /\ Len(BeforeDuplicates) = 2

----------------------------------------------------------------------------
(* Claims about the process: clean.on.start, the output channel, cancelled *)
(* starts, the instances                                                   *)

\* the start attempts whose config has been handed to uploadServer.init
Handed == {a \in 1..Len(attempts) : attempts[a].inited}

\* C15: the setting clean.on.start is read once in the process: the first
\* handoff to uploadServer.init, whatever the session and the instance,
\* passes the setting as cleanOnStart and every later one passes true; the
\* read is still to come exactly as long as nothing has been handed over, so
\* a start that fails or is cancelled before its handoff does not use it up
C15_CleanSettingReadOnce ==
    [][/\ firstClean = (Handed = {})
       /\ handoff'.phase = "init" =>
              handoff'.cleanOnStart = IF Handed = {} THEN handoff'.cleanSetting
                                      ELSE TRUE
       /\ handoff'.phase # "init" => firstClean' = firstClean]_vars

\* a later handoff, of another instance than an earlier one, passes true
\* with the setting off
C15_Witness ==
    /\ handoff.phase = "init"
    /\ ~ handoff.cleanSetting
    /\ handoff.cleanOnStart
    /\ \E a \in Handed : attempts[a].owner # attempts[handoff.id].owner

\* C16: the output channel of an instance is disposed only in the step that
\* shuts the process down
C16_ChannelDisposedAtShutdownOnly ==
    [][\A i \in 1..Len(uploaders) :
           (uploaders[i].outputChannel = "open"
            /\ uploaders'[i].outputChannel = "disposed") => disposed']_vars

\* the start attempts unsubscribed while the config load or the enumeration
\* of the cartridges was pending
Superseded == {a \in 1..Len(attempts) :
                   attempts[a].closed /\ attempts[a].pc \in {"config", "cartridges"}}

\* C17: a start attempt unsubscribed while pending does nothing when its work
\* resolves: it is never handed to uploadServer.init, the step that resolves
\* it logs nothing, and it leaves every instance, the handles included, as
\* it was
C17_SupersededAttemptIsNoOp ==
    [][\A a \in Superseded :
           /\ ~ attempts'[a].inited
           /\ attempts'[a].pc \in {attempts[a].pc, "dropped"}
           /\ attempts'[a].pc # attempts[a].pc =>
                  /\ out' = <<>>
                  /\ handoff' = NoHandoff
                  /\ uploaders' = uploaders
                  /\ \A b \in 1..Len(attempts) :
                         b # a => attempts'[b] = attempts[b]]_vars

\* the config of a start attempt resolves after a restart of its instance
\* has replaced it, while the newer attempt is live and held
C17_Witness ==
    /\ event.kind = "ConfigLoaded"
    /\ attempts[event.id].pc = "dropped"
    /\ LET i == attempts[event.id].owner
           held == uploaders[i].uploaderSubscription
       IN  /\ held > event.id
           /\ attempts[held].replaced = event.id
           /\ ~ attempts[held].closed

\* C18: when a folder change tears down the instance of a session whose
\* prompt is pending, the answer that follows changes neither removeFilesMode
\* nor returns anything to delete
C18_AnswerAfterCancelDiscarded ==
    [][\A c \in 1..Len(calls) :
           LET a == calls[c].session
               i == attempts[a].owner
           IN  (/\ calls[c].pc = "showWarningMessage"
                /\ attempts[a].closed
                /\ \E k \in 1..Len(out) : out[k] = Line(i, "Shutting down...")
                /\ calls'[c].pc = "done") =>
                   /\ removeFilesMode' = removeFilesMode
                   /\ calls'[c].result = <<>>]_vars

\* the instances subscribed to the commandBus, and those with a registered
\* configuration listener
OnCommandBus == {i \in 1..Len(uploaders) : uploaders[i].commandSubs}
OnConfiguration == {i \in 1..Len(uploaders) : uploaders[i].configSubscription}

\* C19: at most one instance is subscribed to the commandBus and at most one
\* has its configuration listener registered, at most one start attempt or
\* session is live in the process, and all of them belong to the instance
\* constructed last, the one updateFolders holds: an instance that has been
\* replaced has no subscription and no live attempt, old or new
C19_OneInstanceReacts ==
    /\ Cardinality(OnCommandBus) <= 1
    /\ Cardinality(OnConfiguration) <= 1
    /\ Cardinality({a \in 1..Len(attempts) : ~ attempts[a].closed}) <= 1
    /\ \A i \in 1..Len(uploaders) :
           (i \in OnCommandBus \cup OnConfiguration \/ Live(i) # {}) =>
               /\ i = subs
               /\ i = Len(uploaders)
               /\ uploaders[i].outputChannel = "open"

\* a command starts a session of the second instance after a folder change
\* has torn down the first one, which had started an attempt of its own
C19_Witness ==
    /\ Len(uploaders) >= 2
    /\ event.kind = "command"
    /\ \E a \in 1..Len(attempts) : attempts[a].owner = 1
    /\ \E a \in Live(Len(uploaders)) : attempts[a].trigger = "clean.upload"

\* C20: a session started by clean.upload is handed to uploadServer.init
\* with cleanOnStart = true
C20_CleanCommandCleans ==
    (handoff.phase = "init" /\ attempts[handoff.id].trigger = "clean.upload")
        => handoff.cleanOnStart

----------------------------------------------------------------------------
(* Claims about the order of filter and deduplication, checked under       *)
(* SpecCartridges                                                          *)

\* the resolved cartridges of the latest start, in the order of discovery
Resolved == toSet(handoff.emitted)

\* the resolved cartridges the allow-list lets through (every one when the
\* list is absent or empty) that have no earlier resolved cartridge of the
\* same basename
FirstPerAllowedName ==
    SelectSeq(Resolved,
              LAMBDA path :
                  /\ AllowListedInit =>
                         \E k \in 1..Len(handoff.dwConf.cartridge) :
                             handoff.dwConf.cartridge[k] = path[2]
                  /\ \A k \in 1..Len(Resolved) :
                         Resolved[k][2] = path[2] =>
                             Position(Resolved, path) <= k)

\* deduplicate first, filter by the allow-list afterwards
DedupThenFilter ==
    LET deduplicated == removeDuplicateCartridges(Resolved).cartridge IN
    IF AllowListedInit
    THEN filterCartridges(deduplicated, handoff.dwConf.cartridge)
    ELSE deduplicated

\* C21: the cartridge list handed to uploadServer.init is the resolved
\* cartridges in discovery order whose basename is on the allow-list (all of
\* them without one), cut to the first per basename, and it is what
\* deduplication followed by the filter gives
C21_FilterDedupOrder ==
    handoff.phase = "init" =>
        /\ handoff.cartridge = FirstPerAllowedName
        /\ handoff.cartridge = DedupThenFilter

\* the allow-list dropped one of three resolved cartridges and the
\* deduplication another
C21_Witness ==
    /\ AllowListedInit
    /\ Resolved = << <<Folder1, NameA>>, <<Folder1, NameB>>, <<Folder2, NameA>> >>
    /\ handoff.dwConf.cartridge = <<NameA>>
    /\ handoff.cartridge = << <<Folder1, NameA>> >>

----------------------------------------------------------------------------
(* Claims about the warnings of a start, checked under SpecCartridges *)

\* the start attempts that wait for the enumeration of the cartridges and
\* have not been unsubscribed
AwaitingCartridges ==
    {id \in 1..Len(attempts) :
         attempts[id].pc = "cartridges" /\ ~ attempts[id].closed}

\* C22: a start attempt that is still subscribed can be handed to
\* uploadServer.init as soon as its cartridges resolve, with duplicates, with
\* names of the allow-list that have no cartridge and with an empty list
\* (the three StartInputs); every step that resolves the cartridges of an
\* attempt without an error hands over that attempt and no other, and no
\* attempt is handed over twice
C22_WarningsNeverBlock ==
    /\ [](\A id \in AwaitingCartridges, input \in StartInputs :
              ENABLED CartridgesResolved(id, input, TRUE))
    /\ [][/\ \A id \in AwaitingCartridges :
                 attempts'[id].pc \notin {"cartridges", "error"} =>
                     /\ handoff'.phase = "init"
                     /\ handoff'.id = id
                     /\ attempts'[id].inited
          /\ handoff'.phase = "init" =>
                 /\ handoff'.id \in AwaitingCartridges
                 /\ ~ attempts[handoff'.id].inited
                 /\ \A id \in 1..Len(attempts) :
                        id # handoff'.id =>
                            attempts'[id].inited = attempts[id].inited]_vars

\* a start was handed over with an empty cartridge list after the warning
\* about the names of the allow-list without a cartridge
C22_Witness ==
    /\ handoff.phase = "init"
    /\ attempts[handoff.id].inited
    /\ handoff.cartridge = <<>>
    /\ Len(handoff.warnings) = 1
    /\ handoff.warnings[1].kind = "missing"

----------------------------------------------------------------------------
(* Claims about what sets the conflict policy, checked under SpecPolicy *)

\* call c has returned without setting removeFilesMode: early for want of
\* extra names, or after a one-shot answer or a dismissed prompt
LeftUnset(c) ==
    /\ calls[c].pc = "done"
    /\ calls[c].modeAtCall = "unset"
    /\ \/ ExtraNames(calls[c]) = {}
       \/ calls[c].response \in {"Remove All", "Leave All", "undefined"}

\* call c is the next one after such a call: it has extra names, it found
\* removeFilesMode unset, which it still is, every earlier call is over, and
\* it waits for the config
NextAfterLeftUnset(c) ==
    /\ calls[c].pc = "getDWConfig"
    /\ ExtraNames(calls[c]) # {}
    /\ removeFilesMode = "unset"
    /\ \A b \in 1..(c - 1) : calls[b].pc \in {"done", "rejected"}
    /\ \E b \in 1..(c - 1) : LeftUnset(b)

\* the step is an 'Always' answer or the load of a config that names a
\* cartridgeResolution
SetsPolicy ==
    \/ event'.kind = "AskAnswer"
       /\ event'.arg \in {"Remove All Always", "Leave All Always"}
    \/ event'.kind = "AskConfigLoaded"
       /\ event'.arg \in {"remove", "leave"}

\* C23 as stated: only those steps change removeFilesMode, and the next call
\* with extra names after a call that left it unset prompts when its config
\* has loaded
C23_Original ==
    [][/\ removeFilesMode' # removeFilesMode => SetsPolicy
       /\ \A c \in 1..Len(calls) :
              (/\ NextAfterLeftUnset(c)
               /\ event'.kind = "AskConfigLoaded"
               /\ event'.id = c) =>
                  calls'[c].pc = "showWarningMessage"]_vars

\* C23 amended: only those steps change removeFilesMode; a call with extra
\* names that finds it unset is not answered from the policy but loads the
\* config, and the next such call after a call that left it unset prompts
\* exactly when the config it loads names no cartridgeResolution, and
\* otherwise returns unprompted with the policy set to the one of the config
C23_OnlyAlwaysSetsPolicy ==
    [][/\ removeFilesMode' # removeFilesMode => SetsPolicy
       /\ (Len(calls') > Len(calls) /\ removeFilesMode = "unset") =>
              LET new == calls'[Len(calls')] IN
              IF ExtraNames(new) # {} THEN new.pc = "getDWConfig"
              ELSE new.pc = "done" /\ new.result = <<>>
                   /\ removeFilesMode' = "unset"
       /\ \A c \in 1..Len(calls) :
              (/\ NextAfterLeftUnset(c)
               /\ event'.kind = "AskConfigLoaded"
               /\ event'.id = c) =>
                  IF event'.arg = "none"
                  THEN /\ calls'[c].pc = "showWarningMessage"
                       /\ removeFilesMode' = "unset"
                  ELSE /\ calls'[c].pc = "done"
                       /\ calls'[c].response = "unasked"
                       /\ removeFilesMode' = event'.arg]_vars

\* after a one-shot 'Remove All' that returned names, the next call with
\* extra names has just been brought to the prompt, the policy still unset
C23_Witness ==
    /\ event.kind = "AskConfigLoaded"
    /\ event.id > 1
    /\ calls[event.id].pc = "showWarningMessage"
    /\ ExtraNames(calls[event.id]) # {}
    /\ removeFilesMode = "unset"
    /\ \E b \in 1..(event.id - 1) :
           /\ LeftUnset(b)
           /\ calls[b].response = "Remove All"
           /\ calls[b].result # <<>>

====
